---------------------------- MODULE Spec2Model ----------------------------
(***************************************************************************)
(* Model of GujaratiSentenceTokenizer (NLP Lab/sentence_tokenizer_Regex.py) *)
(*                                                                         *)
(* A text is a sequence of one-character strings.  Every regular           *)
(* expression of the tokenizer is modelled by an operator that returns,    *)
(* for a text s and a start index i, the index just past the match that    *)
(* Python's backtracking matcher finds at i, or 0 when there is no match    *)
(* at i.  re.sub, re.split, str.replace, str.strip and str.split are        *)
(* modelled by left-to-right scans over the sequence, as the library does  *)
(* them.                                                                   *)
(***************************************************************************)
EXTENDS Integers, Sequences, FiniteSets, TLC

VARIABLES
    pc,               \* pc[t]: position of thread t inside tokenize
    arg,              \* arg[t]: the text passed to tokenize by thread t
    self,             \* self[t]: the tokenizer instance thread t calls
    protected_items,  \* protected_items[o]: the list held by instance o
    carried,          \* carried[t]: the list the instance held when line 92 ran
    text,             \* text[t]: local `text` of _protect_special_patterns
    candidates,       \* candidates[t]: stripped candidates before restoration
    raw_sentences,    \* raw_sentences[t]: result of _split_into_sentences
    final_sentences   \* final_sentences[t]: value returned by tokenize

vars == <<pc, arg, self, protected_items, carried, text, candidates,
          raw_sentences, final_sentences>>

---------------------------------------------------------------------------
(* Character classes, as Python's re and str see them.                     *)

Threads == {1, 2}

Lower == {"a", "b", "c", "d", "e", "f", "g", "h", "i", "j", "k", "l", "m",
          "n", "o", "p", "q", "r", "s", "t", "u", "v", "w", "x", "y", "z"}

Upper == {"A", "B", "C", "D", "E", "F", "G", "H", "I", "J", "K", "L", "M",
          "N", "O", "P", "Q", "R", "S", "T", "U", "V", "W", "X", "Y", "Z"}

AsciiDigits == <<"0", "1", "2", "3", "4", "5", "6", "7", "8", "9">>

AsciiDigit == {AsciiDigits[k] : k \in 1..10}

\* [૦-૯]
GujDigit == {"૦", "૧", "૨", "૩", "૪", "૫", "૬", "૭", "૮", "૯"}

\* [઀-૿]: the assigned code points of the Gujarati block
GujBlock == {"ઁ", "ં", "ઃ", "અ", "આ", "ઇ", "ઈ", "ઉ", "ઊ", "ઋ", "ઌ", "ઍ", "એ", "ઐ", "ઑ", "ઓ", "ઔ", "ક", "ખ", "ગ", "ઘ", "ઙ", "ચ", "છ", "જ", "ઝ", "ઞ", "ટ", "ઠ", "ડ", "ઢ", "ણ", "ત", "થ", "દ", "ધ", "ન", "પ", "ફ", "બ", "ભ", "મ", "ય", "ર", "લ", "ળ", "વ", "શ", "ષ", "સ", "હ", "઼", "ઽ", "ા", "િ", "ી", "ુ", "ૂ", "ૃ", "ૄ", "ૅ", "ે", "ૈ", "ૉ", "ો", "ૌ", "્", "ૐ", "ૠ", "ૡ", "ૢ", "ૣ", "૦", "૧", "૨", "૩", "૪", "૫", "૬", "૭", "૮", "૯", "૰", "૱", "ૹ", "ૺ", "ૻ", "ૼ", "૽", "૾", "૿"}

\* the code points of the Gujarati block that \w matches (letters and digits,
\* not the combining signs)
GujWord == {"અ", "આ", "ઇ", "ઈ", "ઉ", "ઊ", "ઋ", "ઌ", "ઍ", "એ", "ઐ", "ઑ", "ઓ", "ઔ", "ક", "ખ", "ગ", "ઘ", "ઙ", "ચ", "છ", "જ", "ઝ", "ઞ", "ટ", "ઠ", "ડ", "ઢ", "ણ", "ત", "થ", "દ", "ધ", "ન", "પ", "ફ", "બ", "ભ", "મ", "ય", "ર", "લ", "ળ", "વ", "શ", "ષ", "સ", "હ", "ઽ", "ૐ", "ૠ", "ૡ", "૦", "૧", "૨", "૩", "૪", "૫", "૬", "૭", "૮", "૯", "ૹ"}

\* [ા-ૌઁ-ઃ્]
Matra == {"ઁ", "ં", "ઃ", "ા", "િ", "ી", "ુ", "ૂ", "ૃ", "ૄ", "ૅ", "ે", "ૈ", "ૉ", "ો", "ૌ", "્"}

\* \s, and the characters str.strip() and str.split() treat as blank
Space == {" ", "\n", "\t"}

\* \d on a str pattern matches every Unicode decimal digit
Digit == AsciiDigit \cup GujDigit

\* \w
Word == Lower \cup Upper \cup AsciiDigit \cup {"_"} \cup GujWord

\* [\w\.-]
EmailLocal == Word \cup {".", "-"}

\* [-/]
DateSep == {"-", "/"}

\* U+0964, the danda; it stands here as one character under this name
Danda == "danda"

\* [\.!?।।] (the danda is written twice in the class)
BoundaryChar == {".", "!", "?", Danda}

---------------------------------------------------------------------------
(* The literal lists of __init__.                                          *)

abbreviations == <<
  <<"D", "r", ".">>,
  <<"M", "r", ".">>,
  <<"M", "r", "s", ".">>,
  <<"M", "s", ".">>,
  <<"P", "r", "o", "f", ".">>,
  <<"S", "r", ".">>,
  <<"J", "r", ".">>,
  <<"S", "t", ".">>,
  <<"v", "s", ".">>,
  <<"e", "t", "c", ".">>,
  <<"e", ".", "g", ".">>,
  <<"i", ".", "e", ".">>,
  <<"a", ".", "m", ".">>,
  <<"p", ".", "m", ".">>,
  <<"એ", "લ", ".", "સ", "ી", ".", "બ", "ી", ".">>,
  <<"પ", "ી", ".", "એ", "સ", ".", "આ", "ઇ", ".">>,
  <<"શ", "્", "ર", "ી", ".">>,
  <<"શ", "્", "ર", "ી", "મ", "ત", "ી", ".">>,
  <<"ક", "ુ", "ં", ".">>,
  <<"શ", "્", "ર", "ી", "મ", ".">>,
  <<"ડ", "ૉ", ".">>,
  <<"પ", "્", "ર", "ો", ".">>,
  <<"સ", "્", "વ", ".">> >>

\* the month names of the 'date' pattern, in the order of its alternation
months == <<
  <<"જ", "ા", "ન", "્", "ય", "ુ", "આ", "ર", "ી">>,
  <<"ફ", "ે", "બ", "્", "ર", "ુ", "આ", "ર", "ી">>,
  <<"મ", "ા", "ર", "્", "ચ">>,
  <<"એ", "પ", "્", "ર", "િ", "લ">>,
  <<"મ", "ે">>,
  <<"જ", "ૂ", "ન">>,
  <<"જ", "ુ", "લ", "ા", "ઈ">>,
  <<"ઑ", "ગ", "સ", "્", "ટ">>,
  <<"સ", "પ", "્", "ટ", "ે", "મ", "્", "બ", "ર">>,
  <<"ઑ", "ક", "્", "ટ", "ો", "બ", "ર">>,
  <<"ન", "વ", "ે", "મ", "્", "બ", "ર">>,
  <<"ડ", "િ", "સ", "ે", "મ", "્", "બ", "ર">> >>

\* the order in which _protect_special_patterns applies the patterns
PatternOrder == <<"ellipsis", "url", "email", "date", "abbreviation",
                  "num_dot", "guj_matra_dot">>

---------------------------------------------------------------------------
(* Scanning helpers.                                                       *)

Min(a, b) == IF a < b THEN a ELSE b

\* the literal lit occurs in s at index i
HasAt(s, i, lit) ==
    /\ i >= 1
    /\ i + Len(lit) - 1 <= Len(s)
    /\ \A k \in 1..Len(lit) : s[i + k - 1] = lit[k]

\* index just past the longest run of characters of class C starting at i
RECURSIVE RunEnd(_, _, _)
RunEnd(s, i, C) ==
    IF i <= Len(s) /\ s[i] \in C THEN RunEnd(s, i + 1, C) ELSE i

\* index just past the longest run of characters outside class C starting at i
RECURSIVE RunEndNot(_, _, _)
RunEndNot(s, i, C) ==
    IF i <= Len(s) /\ s[i] \notin C THEN RunEndNot(s, i + 1, C) ELSE i

\* lit occurs somewhere in s
Contains(s, lit) == \E i \in 1..(Len(s) - Len(lit) + 1) : HasAt(s, i, lit)

\* number of non-overlapping occurrences of lit in s, scanning from i
RECURSIVE CountFrom(_, _, _)
CountFrom(s, i, lit) ==
    IF i + Len(lit) - 1 > Len(s) THEN 0
    ELSE IF HasAt(s, i, lit) THEN 1 + CountFrom(s, i + Len(lit), lit)
    ELSE CountFrom(s, i + 1, lit)

Count(s, lit) == CountFrom(s, 1, lit)

---------------------------------------------------------------------------
(* The protection patterns.  Each operator gives the index just past the   *)
(* match at i, or 0.                                                       *)

\* 'ellipsis': \.\.\.
EllipsisMatch(s, i) == IF HasAt(s, i, <<".", ".", ".">>) THEN i + 3 ELSE 0

\* UrlMatch with [^\s]+ stopping at the first dot that a word character
\* follows instead of the last
UrlMatchFirstDot(s, i) ==
    LET scheme == IF HasAt(s, i, <<"h", "t", "t", "p", "s", ":", "/", "/">>)
                    THEN i + 8
                  ELSE IF HasAt(s, i, <<"h", "t", "t", "p", ":", "/", "/">>)
                    THEN i + 7
                  ELSE 0
        stop   == RunEndNot(s, scheme, Space)
        dots   == {k \in (scheme + 1)..(stop - 2) :
                      s[k] = "." /\ s[k + 1] \in Word}
    IN  IF scheme = 0 \/ dots = {} THEN 0
        ELSE RunEnd(s, (CHOOSE k \in dots : \A j \in dots : k <= j) + 1, Word)

\* 'url': https?://[^\s]+\.\w+
\* [^\s]+ is greedy and gives characters back until an escaped dot followed
\* by a word character is found: the match uses the last such dot of the
\* run of non-blank characters, and \w+ then takes every word character.
UrlMatch(s, i) ==
    LET scheme == IF HasAt(s, i, <<"h", "t", "t", "p", "s", ":", "/", "/">>)
                    THEN i + 8
                  ELSE IF HasAt(s, i, <<"h", "t", "t", "p", ":", "/", "/">>)
                    THEN i + 7
                  ELSE 0
        stop   == RunEndNot(s, scheme, Space)
        dots   == {k \in (scheme + 1)..(stop - 2) :
                      s[k] = "." /\ s[k + 1] \in Word}
    IN  IF scheme = 0 \/ dots = {} THEN 0
        ELSE RunEnd(s, (CHOOSE k \in dots : \A j \in dots : j <= k) + 1, Word)

\* (\w\.)+ : index just past the longest run of word-character/dot pairs
RECURSIVE LabelsEnd(_, _)
LabelsEnd(s, i) ==
    IF i + 1 <= Len(s) /\ s[i] \in Word /\ s[i + 1] = "."
    THEN LabelsEnd(s, i + 2) ELSE i

\* 'email': [\w\.-]+@(\w\.)+\w+
\* The local part is the whole run of [\w.-] and must end right before the
\* @.  (\w\.)+ takes every one-character label; when no word character
\* follows them it gives the last label back, whose character is then \w+.
EmailMatch(s, i) ==
    LET at     == RunEnd(s, i, EmailLocal)
        labels == LabelsEnd(s, at + 1)
    IN  IF at = i \/ at > Len(s) \/ s[at] # "@" THEN 0
        ELSE IF labels = at + 1 THEN 0
        ELSE IF labels <= Len(s) /\ s[labels] \in Word
          THEN RunEnd(s, labels, Word)
        ELSE IF labels >= at + 5 THEN labels - 1
        ELSE 0

\* \d{lo,hi} at i, greedy, when the pattern that follows cannot start with a
\* digit: index just past the digits, or 0
DigitsMatch(s, i, lo, hi) ==
    LET stop == RunEnd(s, i, Digit)
    IN  IF stop - i < lo THEN 0 ELSE Min(stop, i + hi)

\* (month|...)+ : index just past the longest run of month names
RECURSIVE MonthsEnd(_, _)
MonthsEnd(s, i) ==
    LET hits == {m \in 1..Len(months) : HasAt(s, i, months[m])}
    IN  IF hits = {} THEN i
        ELSE MonthsEnd(s, i + Len(months[CHOOSE m \in hits :
                                             \A h \in hits : m <= h]))

\* first alternative of 'date': \d{1,2}[-/]\d{1,2}[-/]\d{2,4}
NumericDateMatch(s, i) ==
    LET d1 == DigitsMatch(s, i, 1, 2)
        d2 == DigitsMatch(s, d1 + 1, 1, 2)
    IN  IF d1 = 0 \/ d1 > Len(s) \/ s[d1] \notin DateSep THEN 0
        ELSE IF d2 = 0 \/ d2 > Len(s) \/ s[d2] \notin DateSep THEN 0
        ELSE DigitsMatch(s, d2 + 1, 2, 4)

\* second alternative of 'date': \d{1,2}\s*(month|...)+\s*\d{2,4}
MonthDateMatch(s, i) ==
    LET d1 == DigitsMatch(s, i, 1, 2)
        m1 == RunEnd(s, d1, Space)
        m2 == MonthsEnd(s, m1)
    IN  IF d1 = 0 \/ m2 = m1 THEN 0
        ELSE DigitsMatch(s, RunEnd(s, m2, Space), 2, 4)

\* 'date'
DateMatch(s, i) ==
    IF NumericDateMatch(s, i) # 0 THEN NumericDateMatch(s, i)
    ELSE MonthDateMatch(s, i)

\* abbr_pattern: the alternation of the abbreviations, first alternative
\* that matches
AbbreviationMatch(s, i) ==
    LET hits == {a \in 1..Len(abbreviations) : HasAt(s, i, abbreviations[a])}
    IN  IF hits = {} THEN 0
        ELSE i + Len(abbreviations[CHOOSE a \in hits : \A h \in hits : a <= h])

\* one alternative of 'num_dot': a run of class C followed by a dot
RunDotMatch(s, i, C) ==
    LET stop == RunEnd(s, i, C)
    IN  IF stop > i /\ stop <= Len(s) /\ s[stop] = "." THEN stop + 1 ELSE 0

\* 'num_dot': (?:\d+|[૦-૯]+)\.
NumDotMatch(s, i) ==
    IF RunDotMatch(s, i, Digit) # 0 THEN RunDotMatch(s, i, Digit)
    ELSE RunDotMatch(s, i, GujDigit)

\* 'guj_matra_dot': ([઀-૿]+[ા-ૌઁ-ઃ્]+)\.
\* The first class takes the whole run of Gujarati characters and gives back
\* its last character, which must be a sign of the second class.
MatraDotMatch(s, i) ==
    LET stop == RunEnd(s, i, GujBlock)
    IN  IF /\ stop - i >= 2
           /\ s[stop - 1] \in Matra
           /\ stop <= Len(s)
           /\ s[stop] = "."
        THEN stop + 1 ELSE 0

Match(p, s, i) ==
    CASE p = "ellipsis"      -> EllipsisMatch(s, i)
      [] p = "url"           -> UrlMatch(s, i)
      [] p = "email"         -> EmailMatch(s, i)
      [] p = "date"          -> DateMatch(s, i)
      [] p = "abbreviation"  -> AbbreviationMatch(s, i)
      [] p = "num_dot"       -> NumDotMatch(s, i)
      [] p = "guj_matra_dot" -> MatraDotMatch(s, i)

---------------------------------------------------------------------------
(* Placeholders, substitution and restoration.                             *)

\* str(n)
RECURSIVE Decimal(_)
Decimal(n) ==
    IF n < 10 THEN <<AsciiDigits[n + 1]>>
    ELSE Decimal(n \div 10) \o <<AsciiDigits[(n % 10) + 1]>>

\* f"__PROTECTED_{idx}__"
Placeholder(idx) ==
    <<"_", "_", "P", "R", "O", "T", "E", "C", "T", "E", "D", "_">>
        \o Decimal(idx) \o <<"_", "_">>

\* append the match to the list, return the token that
\* carries the new length minus one
_create_placeholder(items, m) ==
    [items |-> Append(items, m), token |-> Placeholder(Len(items))]

\* re.sub(pattern, self._create_placeholder, text): every non-overlapping
\* match, leftmost first, is replaced by the token the callback returns
RECURSIVE SubFrom(_, _, _, _, _)
SubFrom(p, s, i, out, items) ==
    IF i > Len(s) THEN [text |-> out, items |-> items]
    ELSE LET e == Match(p, s, i)
         IN  IF e = 0 THEN SubFrom(p, s, i + 1, Append(out, s[i]), items)
             ELSE LET r == _create_placeholder(items, SubSeq(s, i, e - 1))
                  IN  SubFrom(p, s, e, out \o r.token, r.items)

ReSub(p, s, items) == SubFrom(p, s, 1, <<>>, items)

\* _protect_special_patterns from pass k on, on a given list
RECURSIVE ProtectFrom(_, _, _)
ProtectFrom(k, s, items) ==
    IF k > Len(PatternOrder) THEN [text |-> s, items |-> items]
    ELSE LET r == ReSub(PatternOrder[k], s, items)
         IN  ProtectFrom(k + 1, r.text, r.items)

\* _protect_special_patterns, run on a given list
_protect_special_patterns(s, items) == ProtectFrom(1, s, items)

\* str.replace(old, new)
RECURSIVE ReplaceFrom(_, _, _, _, _)
ReplaceFrom(s, i, old, new, out) ==
    IF i > Len(s) THEN out
    ELSE IF HasAt(s, i, old)
      THEN ReplaceFrom(s, i + Len(old), old, new, out \o new)
    ELSE ReplaceFrom(s, i + 1, old, new, Append(out, s[i]))

Replace(s, old, new) == ReplaceFrom(s, 1, old, new, <<>>)

\* the loop of _restore_protected_items: one replace per list entry, in
\* index order
RECURSIVE RestoreFrom(_, _, _)
RestoreFrom(s, idx, items) ==
    IF idx >= Len(items) THEN s
    ELSE RestoreFrom(Replace(s, Placeholder(idx), items[idx + 1]),
                     idx + 1, items)

_restore_protected_items(s, items) == RestoreFrom(s, 0, items)

---------------------------------------------------------------------------
(* Splitting and merging.                                                  *)

\* str.rstrip()
RECURSIVE RStrip(_)
RStrip(s) ==
    IF s # <<>> /\ s[Len(s)] \in Space THEN RStrip(SubSeq(s, 1, Len(s) - 1))
    ELSE s

\* str.strip()
Strip(s) == LET r == RStrip(s) IN SubSeq(r, RunEnd(r, 1, Space), Len(r))

\* len(str.split()): the number of maximal runs of non-blank characters
WordCount(s) ==
    Cardinality({i \in 1..Len(s) :
                    s[i] \notin Space /\ (i = 1 \/ s[i - 1] \in Space)})

\* sentence_boundary_pattern ([\.!?।।])\s+ at i: index just past the blanks
BoundaryMatch(s, i) ==
    IF i < Len(s) /\ s[i] \in BoundaryChar /\ s[i + 1] \in Space
    THEN RunEnd(s, i + 1, Space) ELSE 0

\* re.split(sentence_boundary_pattern, text): the texts between the matches,
\* each followed by the match's group (the boundary character)
RECURSIVE SplitFrom(_, _, _, _)
SplitFrom(s, i, cur, parts) ==
    IF i > Len(s) THEN Append(parts, cur)
    ELSE LET e == BoundaryMatch(s, i)
         IN  IF e = 0 THEN SplitFrom(s, i + 1, Append(cur, s[i]), parts)
             ELSE SplitFrom(s, e, <<>>, parts \o <<cur, <<s[i]>> >>)

ReSplit(s) == SplitFrom(s, 1, <<>>, <<>>)

\* the loop of _split_into_sentences from parts[i] on (i counts from 1);
\* each entry keeps the stripped candidate beside its restoration
RECURSIVE SentencesFrom(_, _, _, _)
SentencesFrom(parts, i, items, acc) ==
    IF i < Len(parts)
    THEN LET cand == Strip(parts[i] \o parts[i + 1])
             sent == _restore_protected_items(cand, items)
         IN  SentencesFrom(parts, i + 2, items,
                 IF sent # <<>>
                 THEN Append(acc, [cand |-> cand, sent |-> sent]) ELSE acc)
    ELSE LET cand == Strip(parts[Len(parts)])
             sent == _restore_protected_items(cand, items)
         IN  IF Len(parts) % 2 = 1 /\ cand # <<>> /\ sent # <<>>
             THEN Append(acc, [cand |-> cand, sent |-> sent]) ELSE acc

\* SplitEntries with the placeholders restored before the text is split
SplitEntriesRestoredFirst(s, items) ==
    SentencesFrom(ReSplit(_restore_protected_items(s, items)), 1, items, <<>>)

SplitEntries(s, items) == SentencesFrom(ReSplit(s), 1, items, <<>>)

_split_into_sentences(s, items) ==
    LET e == SplitEntries(s, items) IN [k \in 1..Len(e) |-> e[k].sent]

\* the candidates of _split_into_sentences as they are before restoration
SplitCandidates(s, items) ==
    LET e == SplitEntries(s, items) IN [k \in 1..Len(e) |-> e[k].cand]

\* the word count below which a sentence is merged into the one before it
MinWords == 3

\* MergeFrom with <= in place of <
RECURSIVE MergeFromAtMost(_, _, _)
MergeFromAtMost(sentences, i, merged) ==
    IF i > Len(sentences) THEN merged
    ELSE IF merged # <<>> /\ WordCount(sentences[i]) <= MinWords
      THEN MergeFromAtMost(sentences, i + 1,
               [merged EXCEPT ![Len(merged)] =
                   RStrip(merged[Len(merged)]) \o <<" ">> \o sentences[i]])
    ELSE MergeFromAtMost(sentences, i + 1, Append(merged, sentences[i]))

\* _merge_short_sentences, from sentence i on
RECURSIVE MergeFrom(_, _, _)
MergeFrom(sentences, i, merged) ==
    IF i > Len(sentences) THEN merged
    ELSE IF merged # <<>> /\ WordCount(sentences[i]) < MinWords
      THEN MergeFrom(sentences, i + 1,
               [merged EXCEPT ![Len(merged)] =
                   RStrip(merged[Len(merged)]) \o <<" ">> \o sentences[i]])
    ELSE MergeFrom(sentences, i + 1, Append(merged, sentences[i]))

\* _merge_short_sentences that leaves the short sentences out
MergeDroppingShort(sentences) ==
    SelectSeq(sentences,
              LAMBDA x : x = sentences[1] \/ WordCount(x) >= MinWords)

_merge_short_sentences(sentences) == MergeFrom(sentences, 1, <<>>)

\* gujarati_sentence_tokenizer: tokenize on a new instance, which nothing
\* else touches
gujarati_sentence_tokenizer(s) ==
    LET p == _protect_special_patterns(s, <<>>)
    IN  _merge_short_sentences(_split_into_sentences(p.text, p.items))

---------------------------------------------------------------------------
(* The texts the calls are made on.                                        *)

\* "Dr. Patel arrived."
TextDrPatel ==
    <<"D", "r", ".", " ", "P", "a", "t", "e", "l", " ", "a", "r", "r", "i",
      "v", "e", "d", ".">>

\* "Hi."
TextHi ==
    <<"H", "i", ".">>

\* "Hi. a b c! ok"
TextHiThere ==
    <<"H", "i", ".", " ", "a", " ", "b", " ", "c", "!", " ", "o", "k">>

\* "a b c. d e f! g h."
TextThreeSentences ==
    <<"a", " ", "b", " ", "c", ".", " ", "d", " ", "e", " ", "f", "!", " ",
      "g", " ", "h", ".">>

\* "Is it so? Yes it is. No"
TextQuestions ==
    <<"I", "s", " ", "i", "t", " ", "s", "o", "?", " ", "Y", "e", "s", " ",
      "i", "t", " ", "i", "s", ".", " ", "N", "o">>

\* "તા. ૧૮. x y z"
TextTarikh ==
    <<"ત", "ા", ".", " ", "૧", "૮", ".", " ", "x", " ", "y", " ", "z">>

\* "1 મે 2020. a b c. ok"
TextMonthDate ==
    <<"1", " ", "મ", "ે", " ", "2", "0", "2", "0", ".", " ", "a", " ", "b",
      " ", "c", ".", " ", "o", "k">>

\* "શ્રી. ક ખ ગ। હા છે જ। ના"
TextDanda ==
    <<"શ", "્", "ર", "ી", ".", " ", "ક", " ", "ખ", " ", "ગ", Danda, " ",
      "હ", "ા", " ", "છ", "ે", " ", "જ", Danda, " ", "ન", "ા">>

\* "mail x@a.b. now"
TextEmailLabels ==
    <<"m", "a", "i", "l", " ", "x", "@", "a", ".", "b", ".", " ", "n", "o",
      "w">>

\* "e.g. on 12/05/2020 ok. 3.5 is"
TextNumericDate ==
    <<"e", ".", "g", ".", " ", "o", "n", " ", "1", "2", "/", "0", "5", "/",
      "2", "0", "2", "0", " ", "o", "k", ".", " ", "3", ".", "5", " ", "i",
      "s">>

\* "see http://a...b.c now"
TextEllipsisUrl ==
    <<"s", "e", "e", " ", "h", "t", "t", "p", ":", "/", "/", "a", ".", ".",
      ".", "b", ".", "c", " ", "n", "o", "w">>

\* "https://example.com/page.html"
UrlExample ==
    <<"h", "t", "t", "p", "s", ":", "/", "/", "e", "x", "a", "m", "p", "l",
      "e", ".", "c", "o", "m", "/", "p", "a", "g", "e", ".", "h", "t", "m",
      "l">>

\* "http://a.b"
UrlShort ==
    <<"h", "t", "t", "p", ":", "/", "/", "a", ".", "b">>

\* "Visit "
WordVisit ==
    <<"V", "i", "s", "i", "t", " ">>

\* " today"
WordToday ==
    <<" ", "t", "o", "d", "a", "y">>

\* "Thanks."
ClosingThanks ==
    <<"T", "h", "a", "n", "k", "s", ".">>

\* "Ok"
ClosingOk ==
    <<"O", "k">>

\* "So long!"
ClosingSoLong ==
    <<"S", "o", " ", "l", "o", "n", "g", "!">>

\* "..."
ChunkEllipsis ==
    <<".", ".", ".">>

\* "Dr."
ChunkDr ==
    <<"D", "r", ".">>

\* "1/1/11"
ChunkDate ==
    <<"1", "/", "1", "/", "1", "1">>

\* "@a.b"
ChunkEmailTail ==
    <<"@", "a", ".", "b">>

\* "x y z"
ChunkWords ==
    <<"x", " ", "y", " ", "z">>

\* longest input, in chunks, of the enumerated inputs
MaxChunks == 3

\* the pieces the enumerated inputs are put together from
Chunks ==
    { <<"a">>, <<" ">>, <<"\n">>, <<".">>, <<"1">>,
      ChunkEllipsis, ChunkDr, ChunkDate, ChunkEmailTail, ChunkWords,
      Placeholder(0) }

RECURSIVE Concat(_)
Concat(ss) == IF ss = <<>> THEN <<>> ELSE Head(ss) \o Concat(Tail(ss))

ChunkInputs ==
    {Concat(cs) : cs \in UNION {[1..n -> Chunks] : n \in 0..MaxChunks}}

Scenarios ==
    { TextDrPatel, TextHi, TextHiThere, TextThreeSentences, TextQuestions, TextTarikh,
      TextMonthDate, TextDanda, TextEmailLabels, TextNumericDate,
      TextEllipsisUrl }

\* a clause holding a URL, a boundary dot and a blank, a short closing sentence
UrlCase(pre, url, post, closing) ==
    pre \o url \o post \o <<".", " ">> \o closing

Urls == {UrlExample, UrlShort}

Closings == {ClosingThanks, ClosingOk, ClosingSoLong}

UrlCases ==
    {UrlCase(pre, url, post, closing) :
        pre \in {<<>>, WordVisit}, url \in Urls,
        post \in {<<>>, WordToday}, closing \in Closings}

Inputs == ChunkInputs \cup Scenarios \cup UrlCases

\* the texts of the repeated calls on one instance
SeqInputs ==
    { <<>>, ChunkDr \o <<" ", "a">>, ChunkEllipsis \o ChunkEmailTail,
      <<"1", ".", " ", "1", ".", " ", "b">>, <<"a", ".", " ", "b">>,
      Placeholder(0) \o <<" ">> \o ChunkWords,
      Placeholder(1) \o <<".", " ">> \o ChunkDate, TextTarikh }

\* the texts of the two concurrent calls
ConcInputs == { ChunkDr \o <<" ", "a">>, <<"1", ".", " ">> \o ChunkEllipsis,
                <<"a", ".", " ", "b">> }

---------------------------------------------------------------------------
(* The calls.  tokenize runs as the statements of its body, one step each; *)
(* _protect_special_patterns runs as one step per re.sub statement.  The   *)
(* interpreter may switch threads between any two of these statements (and *)
(* inside them), so every interleaving of the steps of two threads is a    *)
(* schedule the program can follow.                                        *)

NoTexts == [t \in Threads |-> <<>>]

\* __init__: a new instance holds an empty list
NewItems == [o \in Threads |-> <<>>]

\* the step after pass p of _protect_special_patterns
AfterPass(p) ==
    LET k == CHOOSE k \in 1..Len(PatternOrder) : PatternOrder[k] = p
    IN  IF k < Len(PatternOrder) THEN PatternOrder[k + 1] ELSE "split"

InitLocals ==
    /\ carried = NoTexts
    /\ text = NoTexts
    /\ candidates = NoTexts
    /\ raw_sentences = NoTexts
    /\ final_sentences = NoTexts

\* one call of tokenize, on a new instance (gujarati_sentence_tokenizer)
Init ==
    /\ pc = [t \in Threads |-> IF t = 1 THEN "call" ELSE "off"]
    /\ \E s \in Inputs : arg = [t \in Threads |-> IF t = 1 THEN s ELSE <<>>]
    /\ self = [t \in Threads |-> t]
    /\ protected_items = NewItems
    /\ InitLocals

\* repeated calls of tokenize on one instance
InitSeq ==
    /\ pc = [t \in Threads |-> IF t = 1 THEN "call" ELSE "off"]
    /\ \E s \in SeqInputs : arg = [t \in Threads |-> IF t = 1 THEN s ELSE <<>>]
    /\ self = [t \in Threads |-> t]
    /\ protected_items = NewItems
    /\ InitLocals

\* two concurrent calls: each through gujarati_sentence_tokenizer, on an
\* instance of its own, or both on one shared instance
InitConc ==
    /\ pc = [t \in Threads |-> "call"]
    /\ arg \in [Threads -> ConcInputs]
    /\ self \in {[t \in Threads |-> t], [t \in Threads |-> 1]}
    /\ protected_items = NewItems
    /\ InitLocals

\* Reset without the assignment of line 92
ResetKeepsItems(t) ==
    /\ pc[t] = "call"
    /\ carried' = [carried EXCEPT ![t] = protected_items[self[t]]]
    /\ text' = [text EXCEPT ![t] = arg[t]]
    /\ pc' = [pc EXCEPT ![t] = PatternOrder[1]]
    /\ UNCHANGED <<arg, self, protected_items, candidates, raw_sentences,
                   final_sentences>>

\* tokenize, line 92: self.protected_items = []
Reset(t) ==
    /\ pc[t] = "call"
    /\ protected_items' = [protected_items EXCEPT ![self[t]] = <<>>]
    /\ carried' = [carried EXCEPT ![t] = protected_items[self[t]]]
    /\ text' = [text EXCEPT ![t] = arg[t]]
    /\ pc' = [pc EXCEPT ![t] = PatternOrder[1]]
    /\ UNCHANGED <<arg, self, candidates, raw_sentences, final_sentences>>

\* one re.sub statement of _protect_special_patterns
ProtectPass(t) ==
    /\ pc[t] \in {PatternOrder[k] : k \in 1..Len(PatternOrder)}
    /\ LET r == ReSub(pc[t], text[t], protected_items[self[t]])
       IN  /\ text' = [text EXCEPT ![t] = r.text]
           /\ protected_items' = [protected_items EXCEPT ![self[t]] = r.items]
    /\ pc' = [pc EXCEPT ![t] = AfterPass(pc[t])]
    /\ UNCHANGED <<arg, self, carried, candidates, raw_sentences,
                   final_sentences>>

\* tokenize, line 95: raw_sentences = self._split_into_sentences(protected_text)
Split(t) ==
    /\ pc[t] = "split"
    /\ raw_sentences' = [raw_sentences EXCEPT ![t] =
           _split_into_sentences(text[t], protected_items[self[t]])]
    /\ candidates' = [candidates EXCEPT ![t] =
           SplitCandidates(text[t], protected_items[self[t]])]
    /\ pc' = [pc EXCEPT ![t] = "merge"]
    /\ UNCHANGED <<arg, self, protected_items, carried, text,
                   final_sentences>>

\* tokenize, lines 96-98: merge and return
Merge(t) ==
    /\ pc[t] = "merge"
    /\ final_sentences' = [final_sentences EXCEPT ![t] =
           _merge_short_sentences(raw_sentences[t])]
    /\ pc' = [pc EXCEPT ![t] = "done"]
    /\ UNCHANGED <<arg, self, protected_items, carried, text, candidates,
                   raw_sentences>>

\* the next call on the same instance
Call(t) ==
    /\ pc[t] = "done"
    /\ \E s \in SeqInputs : arg' = [arg EXCEPT ![t] = s]
    /\ pc' = [pc EXCEPT ![t] = "call"]
    /\ text' = [text EXCEPT ![t] = <<>>]
    /\ candidates' = [candidates EXCEPT ![t] = <<>>]
    /\ raw_sentences' = [raw_sentences EXCEPT ![t] = <<>>]
    /\ final_sentences' = [final_sentences EXCEPT ![t] = <<>>]
    /\ UNCHANGED <<self, protected_items, carried>>

Next ==
    \E t \in Threads : Reset(t) \/ ProtectPass(t) \/ Split(t) \/ Merge(t)

NextSeq == Next \/ \E t \in Threads : Call(t)

Spec == Init /\ [][Next]_vars

SpecSeq == InitSeq /\ [][NextSeq]_vars

SpecConc == InitConc /\ [][Next]_vars

---------------------------------------------------------------------------
(* Vocabulary of the properties.                                           *)

Done(t) == pc[t] = "done"

\* the list of the instance thread t calls
Items(t) == protected_items[self[t]]

\* the indices handed out so far on the instance thread t calls
Indices(t) == 0..(Len(Items(t)) - 1)

\* the text spells out something that reads as a placeholder token
SpellsPlaceholder(s) == Contains(s, SubSeq(Placeholder(0), 1, 12))

\* s without its blanks
Squeeze(s) == SelectSeq(s, LAMBDA c : c \notin Space)

\* " ".join(ss)
RECURSIVE JoinSp(_)
JoinSp(ss) ==
    IF Len(ss) = 0 THEN <<>>
    ELSE IF Len(ss) = 1 THEN ss[1]
    ELSE ss[1] \o <<" ">> \o JoinSp(Tail(ss))

\* total number of occurrences of lit in the texts ss
RECURSIVE CountAll(_, _)
CountAll(ss, lit) ==
    IF ss = <<>> THEN 0 ELSE Count(Head(ss), lit) + CountAll(Tail(ss), lit)

\* the indices of s that an occurrence of the token of index k covers
TokenSpan(s, k) ==
    {j \in 1..Len(s) :
        \E i \in (j - Len(Placeholder(k)) + 1)..j : HasAt(s, i, Placeholder(k))}

\* the indices of s at which the split finds a sentence boundary
BoundaryIndices(s) == {i \in 1..Len(s) : BoundaryMatch(s, i) # 0}

\* the candidates that open an entry of the merged list: the first one, and
\* every later one of MinWords words or more
Openers(raw) ==
    {i \in 1..Len(raw) : i = 1 \/ WordCount(raw[i]) >= MinWords}

\* the last candidate of the entry that candidate i opens
EntryEnd(raw, i) ==
    IF \E j \in Openers(raw) : j > i
    THEN (CHOOSE j \in Openers(raw) :
              j > i /\ \A h \in Openers(raw) : h > i => j <= h) - 1
    ELSE Len(raw)

---------------------------------------------------------------------------
(* C1.  Restoration completeness: once tokenize has returned, no output    *)
(* sentence contains a placeholder token that the protection stage         *)
(* inserted.  Stated for the inputs that do not themselves spell out a     *)
(* placeholder, so that every token found was inserted.                    *)
RestorationComplete ==
    \A t \in Threads :
        Done(t) /\ ~SpellsPlaceholder(arg[t]) =>
            \A i \in 1..Len(final_sentences[t]) :
                ~SpellsPlaceholder(final_sentences[t][i])

NoNewlineInSentences ==
    \A t \in Threads :
        Done(t) => \A i \in 1..Len(final_sentences[t]) :
                       ~Contains(final_sentences[t][i], <<"\n">>)

(* C4.  Sequential calls on one instance: the list is empty when the       *)
(* protection stage of a call starts, and what the call returns is what a  *)
(* new instance returns for the same text, whatever the earlier calls left *)
(* behind.                                                                 *)
NoCarriedState ==
    \A t \in Threads :
        /\ pc[t] = PatternOrder[1] => Items(t) = <<>>
        /\ Done(t) => final_sentences[t] = gujarati_sentence_tokenizer(arg[t])

C4Witness ==
    /\ Done(1)
    /\ carried[1] # <<>>
    /\ Items(1) # <<>>
    /\ Items(1) # carried[1]
    /\ final_sentences[1] # <<>>

(* C5.  Two concurrent calls, on instances of their own or on one shared   *)
(* instance, interleaved in any order: each returns what it returns when   *)
(* run alone.                                                              *)
ConcurrentCallsIsolated ==
    \A t \in Threads :
        Done(t) => final_sentences[t] = gujarati_sentence_tokenizer(arg[t])

(* C6.  A text without any of the boundary characters: tokenize returns    *)
(* the empty list when the text is empty or blank, and otherwise exactly   *)
(* the text stripped.                                                      *)
NoBoundaryOneSentence ==
    \A t \in Threads :
        Done(t) /\ (\A i \in 1..Len(arg[t]) : arg[t][i] \notin BoundaryChar) =>
            final_sentences[t] =
                IF Strip(arg[t]) = <<>> THEN <<>> ELSE <<Strip(arg[t])>>

(* C7.  Merge policy: the first candidate opens the first entry whatever   *)
(* its length; every later candidate of fewer than three words is appended *)
(* to the entry before it after a single space, every other one opens an   *)
(* entry.  So every output sentence but the first has three words or more, *)
(* and the output is no longer than the candidate list.                    *)
MergePolicy ==
    \A t \in Threads :
        Done(t) =>
            LET raw == raw_sentences[t]
                fin == final_sentences[t]
            IN  /\ Len(fin) = Cardinality(Openers(raw))
                /\ Len(fin) <= Len(raw)
                /\ \A i \in Openers(raw) :
                       fin[Cardinality({j \in Openers(raw) : j <= i})] =
                           JoinSp(SubSeq(raw, i, EntryEnd(raw, i)))
                /\ \A k \in 2..Len(fin) : WordCount(fin[k]) >= 3

C7Witness ==
    /\ Done(1)
    /\ Len(raw_sentences[1]) = 3
    /\ Len(final_sentences[1]) = 2
    /\ WordCount(raw_sentences[1][1]) < 3
    /\ WordCount(raw_sentences[1][2]) >= 3
    /\ WordCount(raw_sentences[1][3]) < 3

(* C8.  Non-splitting of protected forms: the split places no boundary     *)
(* inside a placeholder, so no boundary falls inside or at the final dot   *)
(* of a protected substring; every placeholder of the protected text      *)
(* reaches the candidates whole, and the substring it stands for lies      *)
(* within the sentence restored from its candidate.                        *)
ProtectedFormsNotSplit ==
    \A t \in Threads :
        pc[t] \in {"merge", "done"} =>
            \A k \in Indices(t) :
                /\ BoundaryIndices(text[t]) \cap TokenSpan(text[t], k) = {}
                /\ CountAll(candidates[t], Placeholder(k)) =
                       Count(text[t], Placeholder(k))
                /\ Len(candidates[t]) = Len(raw_sentences[t])
                /\ ~SpellsPlaceholder(arg[t]) =>
                       \A c \in 1..Len(candidates[t]) :
                           Contains(candidates[t][c], Placeholder(k)) =>
                               Contains(raw_sentences[t][c], Items(t)[k + 1])

\* a protected substring ends in a dot that a blank follows, and the
\* sentence goes on after it
C8Witness ==
    /\ Done(1)
    /\ ~SpellsPlaceholder(arg[1])
    /\ \E k \in Indices(1) : \E c \in 1..Len(candidates[1]) :
           /\ Items(1)[k + 1] = ChunkDr
           /\ Contains(candidates[1][c], Placeholder(k) \o <<" ", "a">>)
           /\ Contains(arg[1], Items(1)[k + 1] \o <<" ", "a">>)

(* C9.  The patterns run in the order ellipsis, url, email, date,          *)
(* abbreviation, num_dot, guj_matra_dot, and no match of a later pattern   *)
(* takes in a character of a placeholder inserted before it: no entry of   *)
(* protected_items contains a placeholder token.  Stated for the inputs    *)
(* that do not themselves spell out a placeholder.                         *)
NoPlaceholderInItems ==
    \A t \in Threads :
        ~SpellsPlaceholder(arg[t]) =>
            \A k \in Indices(t) : ~SpellsPlaceholder(Items(t)[k + 1])

(* C10.  Content and order preservation: when no protection pattern        *)
(* matched, the output sentences put one after the other, without their    *)
(* blanks, are the input without its blanks.                               *)
ContentPreserved ==
    \A t \in Threads :
        Done(t) /\ Items(t) = <<>> =>
            Squeeze(Concat(final_sentences[t])) = Squeeze(arg[t])

C10Witness ==
    /\ Done(1)
    /\ Items(1) = <<>>
    /\ Len(raw_sentences[1]) = 3
    /\ Len(final_sentences[1]) = 2
    /\ Squeeze(arg[1]) # arg[1]

=============================================================================
